---- MODULE Spec2Model ----
(***************************************************************************)
(* Model of src/src/App.tsx: the todo list application that keeps the      *)
(* cached result of TODOS_QUERY in step with the addTodo / editTodo /      *)
(* deleteTodo mutations through the `update` callbacks of useMutation.     *)
(*                                                                         *)
(* Two specifications share the variables:                                 *)
(*   SpecRec  the three update callbacks applied, as functions of the      *)
(*            cache, to every cache value (established or not);            *)
(*   Spec     the App component: the list query, the three intents, the    *)
(*            remote that answers them, and the handling of the answers.   *)
(*                                                                         *)
(* The cache is modelled as the code uses it: one value for TODOS_QUERY,   *)
(* read by readQuery, replaced by writeQuery and by the result of the list *)
(* query. The remote is not part of the source; it is modelled from the    *)
(* request / response table of the specification.                          *)
(***************************************************************************)
EXTENDS Integers, Sequences, FiniteSets, TLC

\* ---------------------------------------------------------------- bounds
\* ids the remote may hand out / that occur in enumerated cache values
MaxId == 2
\* length of the cache values SpecRec starts from
MaxLen == 2
\* number of update callbacks SpecRec applies in a row
MaxOps == 2
\* number of entities the remote holds when the list query is answered
MaxInit == 1
\* number of mutations the App issues in one behaviour
MaxMutations == 3

\* ---------------------------------------------------------------- values
Ids == 1..MaxId

Texts == {"a", "b"}

\* the text the enumerated entity with a given id carries
TextOf(id) == IF id % 2 = 1 THEN "a" ELSE "b"

\* interface Todo { id; text; completed }: the entities cache values are
\* enumerated from
Todo == {[id |-> i, text |-> TextOf(i), completed |-> b] :
           i \in Ids, b \in BOOLEAN}

\* what cache.readQuery gives back when nothing is written for the query
Null == [est |-> FALSE, todos |-> <<>>]

\* a cached result for TODOS_QUERY: { todos: [...] }
Established(todos) == [est |-> TRUE, todos |-> todos]

\* the value of an expression `query?.todos...` that short-circuited
Undefined == [defined |-> FALSE, val |-> <<>>]

Defined(todos) == [defined |-> TRUE, val |-> todos]

\* some entity of the sequence carries the id
HasId(s, id) == \E i \in DOMAIN s : s[i].id = id

\* ------------------------------------------------------------ the cache
\* cache.readQuery({ query: TODOS_QUERY }): the cached result, or null
readQuery(c) == c

\* cache.writeQuery({ query: TODOS_QUERY, data: { todos } }): replaces the
\* cached result; a data object whose todos field is undefined carries no
\* field to write, and the cached result stays what it was
writeQuery(c, todos) ==
  IF todos.defined THEN Established(todos.val) ELSE c

\* Array.prototype.concat([x])
concat(todos, x) == todos \o <<x>>

\* Array.prototype.splice(findIndex(...), 1): drops one element, and the
\* last one when no id matches (index -1)
filter_Splice(todos, id) ==
  LET n == Len(todos)
      hits == {i \in 1..n : todos[i].id = id}
      k == IF hits = {} THEN n ELSE CHOOSE i \in hits : \A j \in hits : i <= j
  IN  [i \in 1..(IF n = 0 THEN 0 ELSE n - 1) |->
          IF i < k THEN todos[i] ELSE todos[i + 1]]

\* keeps the matching entities instead of the others
filter_Inverted(todos, id) == SelectSeq(todos, LAMBDA t : t.id = id)

\* Array.prototype.filter((t) => t.id !== id)
filter(todos, id) == SelectSeq(todos, LAMBDA t : t.id # id)

\* ---------------------------------------------------- update callbacks
\* mutants of the callbacks, used to show that the theorems depend on them
\* puts the new entity first
addTodoUpdate_Prepend(c, addTodo) ==
  LET query == readQuery(c)
  IN  writeQuery(c, IF query.est THEN Defined(<<addTodo>> \o query.todos)
                                 ELSE Undefined)

\* replaces the entities that carry the id of the new one (last write wins)
addTodoUpdate_Dedup(c, addTodo) ==
  LET query == readQuery(c)
  IN  writeQuery(c, IF query.est
                    THEN Defined(concat(SelectSeq(query.todos,
                                   LAMBDA t : t.id # addTodo.id), addTodo))
                    ELSE Undefined)

\* appends the new entity twice
addTodoUpdate_Twice(c, addTodo) ==
  LET query == readQuery(c)
  IN  writeQuery(c, IF query.est
                    THEN Defined(concat(concat(query.todos, addTodo), addTodo))
                    ELSE Undefined)

\* useMutation(ADD_TODO_MUTATION).update
addTodoUpdate(c, addTodo) ==
  LET query == readQuery(c)
  IN  writeQuery(c, IF query.est THEN Defined(concat(query.todos, addTodo))
                                 ELSE Undefined)

\* merges the completed value of the result into the entity with its id
editTodoUpdate_Merge(c, editTodo) ==
  LET query == readQuery(c)
      todos == IF query.est THEN query.todos ELSE <<>>
  IN  writeQuery(c, Defined([i \in DOMAIN todos |->
          IF todos[i].id = editTodo.id
          THEN [todos[i] EXCEPT !.completed = editTodo.completed]
          ELSE todos[i]]))

\* useMutation(EDIT_TODO_MUTATION).update: declared as update(cache), so the
\* mutation result it is called with is not looked at
editTodoUpdate(c, editTodo) ==
  LET query == readQuery(c)
      todos == IF query.est THEN query.todos ELSE <<>>
  IN  writeQuery(c, Defined(todos))

\* the callback writing the sequence back as it read it
deleteTodoUpdate_Keep(c, deleteTodo) ==
  LET query == readQuery(c)
  IN  writeQuery(c, IF query.est THEN Defined(query.todos) ELSE Undefined)

\* the callback with the inverted test
deleteTodoUpdate_Inverted(c, deleteTodo) ==
  LET query == readQuery(c)
  IN  writeQuery(c, IF query.est
                    THEN Defined(filter_Inverted(query.todos, deleteTodo.id))
                    ELSE Undefined)

\* drops the head of the sequence when some entity carries the id
deleteTodoUpdate_Head(c, deleteTodo) ==
  LET query == readQuery(c)
  IN  writeQuery(c, IF query.est
                    THEN Defined(IF \E i \in DOMAIN query.todos :
                                       query.todos[i].id = deleteTodo.id
                                 THEN Tail(query.todos) ELSE query.todos)
                    ELSE Undefined)

\* useMutation(DELETE_TODO_MUTATION).update
deleteTodoUpdate(c, deleteTodo) ==
  LET query == readQuery(c)
  IN  writeQuery(c, IF query.est
                    THEN Defined(filter(query.todos, deleteTodo.id))
                    ELSE Undefined)

\* ------------------------------------------------- errors in a callback
\* reading .todos of the result of readQuery: `query?.todos` gives undefined
\* for a null query (and skips the call chained to it), `query.todos` raises
\* a TypeError for it
TodosMember(query, optional) ==
  [raised |-> ~query.est /\ ~optional,
   value  |-> IF query.est THEN Defined(query.todos) ELSE Undefined]

\* the store's read does not fail: absence is the null result
readQueryRaises(c) == FALSE

\* the store's write does not fail, whether or not a value was established
writeQueryRaises(c) == FALSE

\* the callbacks reading `query.todos` without the optional chain
UpdateRaises_NoChain(op, c) ==
  \/ readQueryRaises(c)
  \/ TodosMember(readQuery(c), op = "patch").raised
  \/ writeQueryRaises(c)

\* whether the update callback of an operation raises when it runs on cache
\* c: each reads with readQuery, takes `query?.todos`, and writes
UpdateRaises(op, c) ==
  \/ readQueryRaises(c)
  \/ TodosMember(readQuery(c), TRUE).raised
  \/ writeQueryRaises(c)

\* ------------------------------------------------------------ rendering
\* TodoList: todos.sort(completed first), a stable sort
TodoListSorted(todos) ==
  SelectSeq(todos, LAMBDA t : t.completed)
    \o SelectSeq(todos, LAMBDA t : ~t.completed)

\* App passing data.todos itself to TodoList: the sort in place reorders the
\* stored array
AppRender_NoCopy(c) ==
  LET sorted == TodoListSorted(c.todos)
  IN  [stored |-> sorted, shown |-> sorted]

\* App rendering from an established result: todoList = [...data.todos] is a
\* new array, and TodoList sorts the array it is given in place. stored is
\* data.todos after the render, shown the list on the screen
AppRender(c) ==
  LET todoList == c.todos
      sorted == TodoListSorted(todoList)
  IN  [stored |-> c.todos, shown |-> sorted]

\* the cached result after App has rendered from it
Rendered(c) == IF c.est THEN Established(AppRender(c).stored) ELSE c

\* ------------------------------------------------------------ the state
VARIABLES
  cache,       \* the cached result of TODOS_QUERY (Null until established)
  status,      \* useQuery(TODOS_QUERY): "loading", "error" or "ready"
  remote,      \* the entities the remote holds, in its order
  nextId,      \* the next id the remote hands out
  requests,    \* mutations sent and not yet answered by the remote
  responses,   \* answers of the remote not yet handled by the client
  issued,      \* number of mutations issued so far
  updatesRun,  \* number of update callbacks run so far
  unhandled,   \* rejected mutation promises, which no one awaits or catches
  pre,         \* SpecRec: the cache before the last callback
  base,        \* SpecRec: the cache the behaviour started from
  hist         \* SpecRec: the callbacks applied, with their arguments

vars == <<cache, status, remote, nextId, requests, responses, issued,
          updatesRun, unhandled, pre, base, hist>>

appVars == <<status, remote, nextId, requests, responses, issued,
             updatesRun, unhandled>>

recVars == <<pre, base, hist>>

\* -------------------------------------------- SpecRec: the callbacks alone
\* sequences over S of length at most n
SeqUpTo(S, n) == UNION {[1..k -> S] : k \in 0..n}

CacheValues == {Null} \cup {Established(s) : s \in SeqUpTo(Todo, MaxLen)}

\* the data of a mutation result, as the callbacks receive it
Result(id, text, completed) ==
  [id |-> id, text |-> text, completed |-> completed]

\* ids a Delete or Toggle result may carry: one more than the entities use
ResultIds == 1..(MaxId + 1)

InitRec ==
  /\ cache \in CacheValues
  /\ base = cache
  /\ pre = cache
  /\ hist = <<>>
  /\ status = "ready"
  /\ remote = <<>>
  /\ nextId = 1
  /\ requests = {}
  /\ responses = {}
  /\ issued = 0
  /\ updatesRun = 0
  /\ unhandled = 0

Applied(op, arg, c) ==
  /\ Len(hist) < MaxOps
  /\ pre' = cache
  /\ cache' = c
  /\ hist' = Append(hist, [op |-> op, arg |-> arg,
                           raised |-> op # "render" /\ UpdateRaises(op, cache)])
  /\ UNCHANGED <<base, appVars>>

InsertOnSuccess ==
  \E e \in Todo : Applied("insert", e, addTodoUpdate(cache, e))

PatchOnSuccess ==
  \E id \in ResultIds, completed \in BOOLEAN :
    LET r == Result(id, "", completed)
    IN  Applied("patch", r, editTodoUpdate(cache, r))

RemoveOnSuccess ==
  \E id \in ResultIds :
    LET r == Result(id, "", FALSE)
    IN  Applied("remove", r, deleteTodoUpdate(cache, r))

\* App renders from the cached result
Render ==
  /\ cache.est
  /\ Applied("render", Result(0, "", FALSE), Rendered(cache))

NextRec == InsertOnSuccess \/ PatchOnSuccess \/ RemoveOnSuccess \/ Render

SpecRec == InitRec /\ [][NextRec]_vars

\* ------------------------------------------------- Spec: the App component
\* App without the `if (error) return` line
View_NoErrorGuard ==
  IF status = "loading" THEN [screen |-> "loading", todos |-> <<>>]
  ELSE [screen |-> "list", todos |-> AppRender(cache).shown]

\* what App renders: the loading line, the error line, or TodoActions and the
\* TodoList of a copy of data.todos
View ==
  IF status = "loading" THEN [screen |-> "loading", todos |-> <<>>]
  ELSE IF status = "error" THEN [screen |-> "error", todos |-> <<>>]
  ELSE [screen |-> "list", todos |-> AppRender(cache).shown]

\* the lists the remote may hold when the list query reaches it: ids 1..k
InitialRemotes ==
  UNION {{[i \in 1..k |-> [id |-> i, text |-> TextOf(i), completed |-> f[i]]] :
            f \in [1..k -> BOOLEAN]} : k \in 0..MaxInit}

\* a mutation on its way: its variables, the number of its issue, and the
\* cache and callback count at its issue
Request(kind, id, text, completed) ==
  [n |-> issued + 1, kind |-> kind, id |-> id, text |-> text,
   completed |-> completed, snap |-> cache, seen |-> updatesRun]

Init ==
  /\ cache = Null
  /\ status = "loading"
  /\ remote \in InitialRemotes
  /\ nextId = Len(remote) + 1
  /\ requests = {}
  /\ responses = {}
  /\ issued = 0
  /\ updatesRun = 0
  /\ unhandled = 0
  /\ pre = Null
  /\ base = Null
  /\ hist = <<>>

\* useQuery(TODOS_QUERY) resolves: the result is written for the query, and
\* App renders from it
FetchSuccess ==
  /\ status = "loading"
  /\ status' = "ready"
  /\ cache' = Rendered(writeQuery(cache, Defined(remote)))
  /\ UNCHANGED <<remote, nextId, requests, responses, issued, updatesRun,
                 unhandled, recVars>>

\* useQuery(TODOS_QUERY) fails: error is set, nothing is written
FetchFailure ==
  /\ status = "loading"
  /\ status' = "error"
  /\ UNCHANGED <<cache, remote, nextId, requests, responses, issued,
                 updatesRun, unhandled, recVars>>

\* the controls rendered whatever the state of the list query
Mutate_Unguarded(r) ==
  /\ issued < MaxMutations
  /\ requests' = requests \cup {r}
  /\ issued' = issued + 1
  /\ cache' = Rendered(cache)
  /\ UNCHANGED <<status, remote, nextId, responses, updatesRun,
                 unhandled, recVars>>

\* the mutate function of useMutation: sends the mutation, writes nothing;
\* App renders again (the mutation is loading)
Mutate(r) ==
  /\ status = "ready"
  /\ issued < MaxMutations
  /\ requests' = requests \cup {r}
  /\ issued' = issued + 1
  /\ cache' = Rendered(cache)
  /\ UNCHANGED <<status, remote, nextId, responses, updatesRun,
                 unhandled, recVars>>

\* an intent that writes the entity it asks for before the remote answers
onAdd_Optimistic(text) ==
  /\ status = "ready"
  /\ issued < MaxMutations
  /\ requests' = requests \cup {Request("add", 0, text, FALSE)}
  /\ issued' = issued + 1
  /\ cache' = addTodoUpdate(cache, [id |-> 0, text |-> text,
                                    completed |-> FALSE])
  /\ UNCHANGED <<status, remote, nextId, responses, updatesRun, unhandled,
                 recVars>>

\* App.onAdd
onAdd(text) == Mutate(Request("add", 0, text, FALSE))

\* an intent that asks for the completed value the entity already shows
onToggle_Same(id, completed) == Mutate(Request("edit", id, "", completed))

\* App.onToggle
onToggle(id, completed) == Mutate(Request("edit", id, "", ~completed))

\* App.onRemove
onRemove(id) == Mutate(Request("delete", id, "", FALSE))

\* the remote answers a request
Answer(r, ok, data) ==
  /\ requests' = requests \ {r}
  /\ responses' = responses \cup {[req |-> r, ok |-> ok, data |-> data]}
  /\ UNCHANGED <<cache, status, issued, updatesRun, unhandled, recVars>>

\* Add: the remote stores a new entity under an id never used before
RemoteAdd(r) ==
  /\ r.kind = "add"
  /\ LET e == [id |-> nextId, text |-> r.text, completed |-> FALSE]
     IN  /\ remote' = Append(remote, e)
         /\ nextId' = nextId + 1
         /\ Answer(r, TRUE, e)

\* Toggle: the remote sets completed and returns { id, completed }
RemoteEdit(r) ==
  /\ r.kind = "edit"
  /\ HasId(remote, r.id)
  /\ remote' = [i \in DOMAIN remote |->
                  IF remote[i].id = r.id
                  THEN [remote[i] EXCEPT !.completed = r.completed]
                  ELSE remote[i]]
  /\ UNCHANGED nextId
  /\ Answer(r, TRUE, Result(r.id, "", r.completed))

\* Delete: the remote drops the entity and returns { id }
RemoteDelete(r) ==
  /\ r.kind = "delete"
  /\ HasId(remote, r.id)
  /\ remote' = SelectSeq(remote, LAMBDA t : t.id # r.id)
  /\ UNCHANGED nextId
  /\ Answer(r, TRUE, Result(r.id, "", FALSE))

\* the remote rejects a mutation
RemoteReject(r) ==
  /\ UNCHANGED <<remote, nextId>>
  /\ Answer(r, FALSE, Result(0, "", FALSE))

\* what the store itself does to the cached result of TODOS_QUERY when a
\* mutation result arrives, before the update callback is called: nothing;
\* the fields of a cached entity are not rewritten from the result
StoreOnResult(c, data) == c

\* the client takes a successful answer: the update callback of the
\* mutation's kind runs on the cache, and App renders from the result
Completed(resp, c) ==
  /\ resp.ok
  /\ responses' = responses \ {resp}
  /\ cache' = Rendered(c)
  /\ updatesRun' = updatesRun + 1
  /\ UNCHANGED <<status, remote, nextId, requests, issued, unhandled,
                 recVars>>

\* the callback computing from the cached result read when the mutation was
\* issued instead of the current one
addTodoCompleted_Stale(resp) ==
  /\ resp.req.kind = "add"
  /\ Completed(resp, addTodoUpdate(resp.req.snap, resp.data))

addTodoCompleted(resp) ==
  /\ resp.req.kind = "add"
  /\ Completed(resp, addTodoUpdate(StoreOnResult(cache, resp.data), resp.data))

editTodoCompleted(resp) ==
  /\ resp.req.kind = "edit"
  /\ Completed(resp, editTodoUpdate(StoreOnResult(cache, resp.data), resp.data))

deleteTodoCompleted(resp) ==
  /\ resp.req.kind = "delete"
  /\ Completed(resp,
               deleteTodoUpdate(StoreOnResult(cache, resp.data), resp.data))

\* a rejection handled as if the mutation had succeeded
mutationRejected_Reconciled(resp) ==
  /\ ~resp.ok
  /\ responses' = responses \ {resp}
  /\ unhandled' = unhandled + 1
  /\ cache' = IF resp.req.kind = "add"
              THEN addTodoUpdate(cache, [id |-> 0, text |-> resp.req.text,
                                         completed |-> FALSE])
              ELSE IF resp.req.kind = "delete"
              THEN deleteTodoUpdate(cache, Result(resp.req.id, "", FALSE))
              ELSE editTodoUpdate_Merge(cache,
                     Result(resp.req.id, "", resp.req.completed))
  /\ UNCHANGED <<status, remote, nextId, requests, issued, updatesRun,
                 recVars>>

\* the client takes a rejection: no update callback runs; the promise the
\* mutate function returned rejects, and the intent that called it has
\* dropped it
mutationRejected(resp) ==
  /\ ~resp.ok
  /\ responses' = responses \ {resp}
  /\ unhandled' = unhandled + 1
  /\ cache' = Rendered(cache)
  /\ UNCHANGED <<status, remote, nextId, requests, issued, updatesRun,
                 recVars>>

Next ==
  \/ FetchSuccess
  \/ FetchFailure
  \/ \E text \in Texts : onAdd(text)
  \/ \E i \in DOMAIN View.todos :
       onToggle(View.todos[i].id, View.todos[i].completed)
  \/ \E i \in DOMAIN View.todos : onRemove(View.todos[i].id)
  \/ \E r \in requests : RemoteAdd(r)
  \/ \E r \in requests : RemoteEdit(r)
  \/ \E r \in requests : RemoteDelete(r)
  \/ \E r \in requests : RemoteReject(r)
  \/ \E resp \in responses : addTodoCompleted(resp)
  \/ \E resp \in responses : editTodoCompleted(resp)
  \/ \E resp \in responses : deleteTodoCompleted(resp)
  \/ \E resp \in responses : mutationRejected(resp)

Spec == Init /\ [][Next]_vars

\* ------------------------------------------------- claims on the callbacks
Last == hist[Len(hist)]

OnlyInserts == \A i \in DOMAIN hist : hist[i].op = "insert"

DistinctIds(s) == \A i, j \in DOMAIN s : i # j => s[i].id # s[j].id

\* C1: from an established cache X, after n Insert-on-success operations with
\* pairwise distinct ids and nothing else, the cache is X followed by the n
\* inserted entities in the order of their inserts (from an empty cache its
\* length is n).
C1_InsertsAppendInOrder ==
  (base.est /\ OnlyInserts /\ DistinctIds([i \in DOMAIN hist |-> hist[i].arg]))
    => /\ cache.est
       /\ Len(cache.todos) = Len(base.todos) + Len(hist)
       /\ \A i \in DOMAIN base.todos : cache.todos[i] = base.todos[i]
       /\ \A i \in DOMAIN hist :
            cache.todos[Len(base.todos) + i] = hist[i].arg
       /\ (base.todos = <<>> => Len(cache.todos) = Len(hist))

C1_Witness ==
  /\ base.est /\ base.todos # <<>>
  /\ OnlyInserts /\ Len(hist) >= 2
  /\ hist[1].arg.id # hist[2].arg.id

\* C2: Remove-on-success(entityId) on an established cache X writes back the
\* subsequence of X without the entities whose id is entityId: none of them
\* remains, every other entity remains unchanged, in the order it had in X.
C2_RemoveIsSubsequence ==
  (hist # <<>> /\ Last.op = "remove" /\ pre.est)
    => LET id == Last.arg.id
           X == pre.todos
           gone(i) == Cardinality({j \in 1..i : X[j].id = id})
       IN  /\ cache.est
           /\ Len(cache.todos) = Len(X) - gone(Len(X))
           /\ \A i \in DOMAIN cache.todos : cache.todos[i].id # id
           /\ \A i \in DOMAIN X :
                X[i].id # id => cache.todos[i - gone(i)] = X[i]

C2_Witness ==
  /\ hist # <<>> /\ Last.op = "remove" /\ pre.est
  /\ HasId(pre.todos, Last.arg.id)
  /\ cache.todos # <<>>
  /\ pre.todos[1].id = Last.arg.id

\* C3: Remove-on-success is idempotent: applied twice in a row with the same
\* id it leaves the cache it left after the first application.
C3_RemoveIdempotent ==
  (Len(hist) >= 2 /\ Last.op = "remove"
     /\ hist[Len(hist) - 1].op = "remove"
     /\ hist[Len(hist) - 1].arg.id = Last.arg.id)
    => cache = pre

C3_Witness ==
  /\ Len(hist) = 2 /\ hist[1].op = "remove" /\ hist[2].op = "remove"
  /\ hist[1].arg.id = hist[2].arg.id
  /\ base.est /\ HasId(base.todos, hist[1].arg.id)
  /\ pre.todos # <<>>

\* C4: Remove-on-success with an id that no entity of the established cache X
\* carries leaves the cache equal to X.
C4_RemoveAbsentIsNoOp ==
  (hist # <<>> /\ Last.op = "remove" /\ pre.est
     /\ ~HasId(pre.todos, Last.arg.id))
    => cache = pre

C4_Witness ==
  /\ hist # <<>> /\ Last.op = "remove" /\ pre.est
  /\ ~HasId(pre.todos, Last.arg.id)
  /\ Len(pre.todos) >= 2

\* C5: Patch-on-success on an established cache X writes X back unchanged:
\* same length, same ids, same order, same text and completed fields; the
\* completed value of the toggle response is not merged in.
C5_PatchKeepsContents ==
  (hist # <<>> /\ Last.op = "patch" /\ pre.est)
    => /\ cache.est
       /\ Len(cache.todos) = Len(pre.todos)
       /\ \A i \in DOMAIN pre.todos : cache.todos[i] = pre.todos[i]

C5_Witness ==
  /\ hist # <<>> /\ Last.op = "patch" /\ pre.est
  /\ \E i \in DOMAIN pre.todos :
       /\ pre.todos[i].id = Last.arg.id
       /\ pre.todos[i].completed # Last.arg.completed

\* C6: each of the three callbacks, run while no cached result is
\* established, leaves the cache as it would leave an established empty
\* sequence: insert the one-element sequence, remove and patch the empty one.
C6_CacheMissAsEmpty ==
  (hist # <<>> /\ ~pre.est)
    => cache = IF Last.op = "insert" THEN Established(<<Last.arg>>)
                                      ELSE Established(<<>>)

C8_FailureSurfaced == unhandled > 0 => View.screen = "error"

\* C9: whenever a cached result is established, the ids of its entities are
\* pairwise distinct (the list query returns distinct ids and the remote never
\* hands out an id twice), whatever mutations succeeded or failed.
C9_CachedIdsDistinct == cache.est => DistinctIds(cache.todos)

C9_Witness ==
  /\ cache.est /\ Len(cache.todos) >= 2
  /\ updatesRun >= 2
  /\ unhandled >= 1

\* C10: the cached result changes only in the step that takes a successful
\* mutation answer, or in the step in which the list query resolves; issuing
\* a mutation and the remote's work write nothing.
C10_WritesOnlyOnSuccess ==
  [][cache' # cache =>
       \/ status = "loading" /\ status' = "ready"
       \/ \E resp \in responses :
            resp.ok /\ resp \notin responses' /\ updatesRun' = updatesRun + 1]_vars

C10_Witness ==
  /\ cache.est
  /\ \E r \in requests : r.kind = "add"
  /\ \E resp \in responses : resp.ok /\ resp.req.kind = "delete"
  /\ updatesRun > 0

\* the ids the entities of a sequence carry
IdSet(s) == {s[i].id : i \in DOMAIN s}

\* ids of the successful answers of a kind that the client has not taken yet
PendingIds(kind) ==
  {resp.data.id : resp \in {x \in responses : x.ok /\ x.req.kind = kind}}

\* C11: no update is lost: with several mutations in flight and their
\* answers taken in any order, the cached result holds every entity whose Add
\* answer was taken and none whose Delete answer was taken, each once; it
\* differs from the remote's list only by the answers still on their way.
C11_NoLostUpdate ==
  cache.est
    => /\ IdSet(cache.todos)
            = (IdSet(remote) \ PendingIds("add")) \cup PendingIds("delete")
       /\ Len(cache.todos) = Cardinality(IdSet(cache.todos))

C11_Witness ==
  /\ cache.est
  /\ \E resp \in responses :
       /\ resp.ok /\ resp.req.kind = "add"
       /\ resp.req.seen < updatesRun
       /\ resp.req.snap # cache
       /\ Len(cache.todos) > Len(resp.req.snap.todos)

\* C12: when the list query fails, nothing is cached for it and App shows the
\* error line, never a (possibly empty) task list; TodoActions and TodoList
\* are not rendered, so no intent can be triggered.
C12_FetchFailureIsErrorState ==
  status = "error"
    => /\ ~cache.est
       /\ View.screen = "error"
       /\ View.todos = <<>>
       /\ issued = 0 /\ requests = {} /\ responses = {}
       /\ ~ENABLED (\E text \in Texts : onAdd(text))
       /\ ~ENABLED (\E i \in DOMAIN View.todos :
                      onToggle(View.todos[i].id, View.todos[i].completed))
       /\ ~ENABLED (\E i \in DOMAIN View.todos : onRemove(View.todos[i].id))

C12_Witness == status = "error" /\ remote # <<>>

\* C13: rendering never changes the stored sequence: the completed-first
\* sort works on a copy, so after one render, and after any number of them,
\* the cached result holds the same entities in the same order as before.
C13_RenderKeepsStored ==
  /\ (hist # <<>> /\ Last.op = "render") => cache = pre
  /\ (\A i \in DOMAIN hist : hist[i].op = "render") => cache = base

C13_Witness ==
  /\ Len(hist) >= 2
  /\ \A i \in DOMAIN hist : hist[i].op = "render"
  /\ Len(cache.todos) >= 2
  /\ ~cache.todos[1].completed /\ cache.todos[2].completed

C15_InsertKeepsDuplicate ==
  (hist # <<>> /\ Last.op = "insert" /\ pre.est
     /\ HasId(pre.todos, Last.arg.id))
    => /\ cache.est
       /\ Len(cache.todos) = Len(pre.todos) + 1
       /\ \A i \in DOMAIN pre.todos : cache.todos[i] = pre.todos[i]
       /\ cache.todos[Len(cache.todos)] = Last.arg
       /\ Cardinality({i \in DOMAIN cache.todos :
                         cache.todos[i].id = Last.arg.id}) >= 2

C15_Witness ==
  /\ hist # <<>> /\ Last.op = "insert" /\ pre.est
  /\ \E i \in DOMAIN pre.todos :
       /\ pre.todos[i].id = Last.arg.id
       /\ pre.todos[i].completed # Last.arg.completed
  /\ Len(pre.todos) >= 2

\* C16: an intent issues exactly one mutation of its kind with its variables
\* (Add(text); Toggle(id, NOT the completed value shown); Delete(id)); a
\* successful answer runs exactly one update callback, the one of its kind
\* (insert of the returned entity; patch; remove of the returned id); a
\* rejection runs none; no mutation is issued again by the client itself.
C16_Issued(r) ==
  /\ r.n = issued + 1
  /\ r.kind \in {"add", "edit", "delete"}
  /\ r.kind = "add" => r.text \in Texts
  /\ r.kind = "edit" =>
       \E i \in DOMAIN View.todos :
         /\ View.todos[i].id = r.id
         /\ r.completed = ~View.todos[i].completed
  /\ r.kind = "delete" => r.id \in IdSet(View.todos)

C16_OneMutationOneReconciliation ==
  [][/\ issued' \in {issued, issued + 1}
     /\ issued' = issued + 1 =>
          /\ Cardinality(requests' \ requests) = 1
          /\ requests \subseteq requests'
          /\ \A r \in requests' \ requests : C16_Issued(r)
          /\ responses' = responses
          /\ updatesRun' = updatesRun
     /\ issued' = issued => requests' \subseteq requests
     /\ \A resp \in responses :
          (resp \notin responses') =>
            /\ requests' = requests
            /\ responses' = responses \ {resp}
            /\ updatesRun' = updatesRun + (IF resp.ok THEN 1 ELSE 0)
            /\ (resp.ok /\ resp.req.kind = "add") =>
                 cache'.todos = cache.todos \o <<resp.data>>
            /\ (resp.ok /\ resp.req.kind = "edit") => cache' = cache
            /\ (resp.ok /\ resp.req.kind = "delete") =>
                 /\ IdSet(cache'.todos) = IdSet(cache.todos) \ {resp.data.id}
                 /\ Len(cache'.todos) = Cardinality(IdSet(cache'.todos))
            /\ ~resp.ok => cache' = cache
     /\ issued' = Cardinality(requests') + Cardinality(responses')
                    + updatesRun' + unhandled'
    ]_vars

C16_Witness ==
  /\ requests = {} /\ responses = {}
  /\ updatesRun >= 3
  /\ nextId > MaxInit + 1
  /\ Len(remote) < nextId - 1
  /\ \E i \in DOMAIN remote : \E j \in DOMAIN cache.todos :
       /\ remote[i].id = cache.todos[j].id
       /\ remote[i].completed # cache.todos[j].completed

\* C17: with one client and a remote that starts from the fetched list,
\* appends on Add and removes on Delete, once every issued mutation has been
\* answered and its answer taken, the ids in the cached result are the ids
\* the remote holds, whatever the order of requests and answers; the list
\* query is sent once.
C17_ConvergesOnIds ==
  (status = "ready" /\ requests = {} /\ responses = {})
    => cache.est /\ IdSet(cache.todos) = IdSet(remote)

C17_Witness ==
  /\ status = "ready" /\ requests = {} /\ responses = {}
  /\ issued = MaxMutations
  /\ updatesRun >= 2
  /\ nextId > MaxInit + 1
  /\ Len(remote) < nextId - 1
  /\ remote # <<>>

\* C18: the add, toggle and remove intents can be triggered only once the
\* list query has succeeded (not while it loads, not after it failed); so
\* whenever a mutation is in flight or an update callback runs, a cached
\* result is established: the callbacks never take their cache-miss branch.
C18_IntentsOnlyWhenReady ==
  /\ (\/ ENABLED (\E text \in Texts : onAdd(text))
      \/ ENABLED (\E i \in DOMAIN View.todos :
                    onToggle(View.todos[i].id, View.todos[i].completed))
      \/ ENABLED (\E i \in DOMAIN View.todos : onRemove(View.todos[i].id)))
       => status = "ready" /\ cache.est
  /\ (issued > 0 \/ requests # {} \/ responses # {} \/ updatesRun > 0)
       => status = "ready" /\ cache.est

C18_Witness ==
  /\ cache.est /\ cache.todos = <<>>
  /\ \E resp \in responses : resp.ok /\ resp.req.kind = "add"
  /\ updatesRun = 0

\* the Toggle mutations on their way to the remote or back
ToggleReqs ==
  {r \in requests : r.kind = "edit"}
    \cup {resp.req : resp \in {x \in responses : x.req.kind = "edit"}}

\* C19: the completed value of a cached entity never changes while the entity
\* is cached, whatever mutations succeed; so every Toggle issued for an entity
\* carries the same desired value, the negation of the cached one, however
\* often the user toggles it.
C19_CompletedNeverChanges ==
  [][/\ \A i \in DOMAIN cache.todos : \A j \in DOMAIN cache'.todos :
          cache.todos[i].id = cache'.todos[j].id
            => cache.todos[i].completed = cache'.todos[j].completed
     /\ \A r \in ToggleReqs' : \A i \in DOMAIN cache'.todos :
          cache'.todos[i].id = r.id => r.completed = ~cache'.todos[i].completed
     /\ \A r1 \in ToggleReqs' : \A r2 \in ToggleReqs' :
          r1.id = r2.id => r1.completed = r2.completed
    ]_vars

C19_Witness ==
  \E r \in requests :
    /\ r.kind = "edit"
    /\ \A q \in ToggleReqs : q.id = r.id => q = r
    /\ r.seen > 0
    /\ \E i \in DOMAIN remote :
         remote[i].id = r.id /\ remote[i].completed = r.completed
    /\ \E j \in DOMAIN cache.todos :
         cache.todos[j].id = r.id /\ cache.todos[j].completed # r.completed

====
